---- MODULE Spec2Model ----
(***************************************************************************)
(* Model of src/c/encode.c: a bit packer that looks every input byte up in *)
(* a table of variable-length codewords and packs the codewords' bits,     *)
(* LSB-first, into 8-bit output words.                                     *)
(*                                                                         *)
(* Spec       : the program (main): the table set up by main, the read     *)
(*              loop handing each chunk read from stdin to encode.         *)
(* SpecEncode : the function encode called with tables and chunks chosen   *)
(*              by an arbitrary caller (empty chunks, codewords of up to   *)
(*              MAX_CODEWORD_BITS bits, content bits above the length).    *)
(***************************************************************************)
EXTENDS Integers, Sequences, FiniteSets, TLC

VARIABLES code, charSigned, pc, input, i, buf, offset, out,
          stream, mark, cwIndex, tailIndex

vars == <<code, charSigned, pc, input, i, buf, offset, out,
          stream, mark, cwIndex, tailIndex>>

(* ------------------------------ bounds --------------------------------- *)

\* Largest number of input bytes of one run, over all its chunks.
MaxInput == 3

\* Largest number of chunks (calls of encode) of one run.
MaxCalls == 3

(* ------------------------- program constants --------------------------- *)

MAX_CODEWORD_BITS == 256

\* sizeof(word_t) * 8 with word_t = uint8_t.
W == 8

\* Number of elements of codeword_t.bits.
BitsLen == MAX_CODEWORD_BITS \div W

\* Number of entries of code_t.
TableLen == 256

\* Values of a word_t.
Word == 0 .. (2 ^ W - 1)

(* --------------------------- C arithmetic ------------------------------ *)

\* x << n on int (no overflow: x < 2^8 and n < 8 wherever it is used).
Shl(x, n) == x * (2 ^ n)

\* x >> n on a non-negative int.
Shr(x, n) == x \div (2 ^ n)

\* a | b on non-negative ints.
RECURSIVE Or(_, _)
Or(a, b) ==
  IF a = 0 THEN b
  ELSE IF b = 0 THEN a
  ELSE (IF a % 2 = 1 \/ b % 2 = 1 THEN 1 ELSE 0) + 2 * Or(a \div 2, b \div 2)

\* Conversion of an int to word_t (uint8_t): the low W bits.
ToWord(x) == x % (2 ^ W)

\* char sym = input[i]: the byte as a plain char, which is signed or
\* unsigned as the build has it.
CharValue(b) == IF charSigned /\ b >= 128 THEN b - 256 ELSE b

(* ----------------------------- codewords ------------------------------- *)

\* The model keeps of a codeword_t its len and the content words up to the
\* last one that is not zero; of a code_t it keeps the entries that are not
\* all zero. Every other word and entry is zero, as main's memset leaves it.
ZeroCw == [len |-> 0, bits |-> <<>>]

\* The table main builds: memset to zero, then the codes of 'A' .. 'F'.
MainTable ==
  (65 :> [len |-> 1, bits |-> <<1>>])  @@ (66 :> [len |-> 2, bits |-> <<2>>]) @@
  (67 :> [len |-> 3, bits |-> <<>>])   @@ (68 :> [len |-> 4, bits |-> <<4>>]) @@
  (69 :> [len |-> 5, bits |-> <<12>>]) @@ (70 :> [len |-> 5, bits |-> <<28>>])

\* Tables a caller of encode may pass besides main's.
\* WideTable: 'G' is one full word, 'H' has MAX_CODEWORD_BITS bits (all 1),
\* 'I' has 12 bits.
WideTable ==
  (71 :> [len |-> W, bits |-> <<165>>]) @@
  (72 :> [len |-> MAX_CODEWORD_BITS, bits |-> [w \in 1 .. BitsLen |-> 255]]) @@
  (73 :> [len |-> 12, bits |-> <<195, 10>>]) @@ MainTable

\* DirtyTable: main's table with content bits set above the length of 'A'
\* (bit 1) and of 'B' (bit 8): same lengths, same bits below the length.
DirtyTable ==
  (65 :> [len |-> 1, bits |-> <<3>>]) @@ (66 :> [len |-> 2, bits |-> <<2, 1>>]) @@
  MainTable

Tables == {WideTable, DirtyTable}

\* Input bytes of the program's runs: 'A' .. 'F', 'Z' and 0x80.
Bytes == {65, 66, 67, 68, 69, 70, 90, 128}

\* Input bytes of direct calls of encode: 'A', 'B', 'G', 'H', 'I'.
CallBytes == {65, 66, 71, 72, 73}

\* What a read outside an object may yield: the model keeps two words and
\* two lengths of the values the build can produce.
GarbageWords == {0, 255}
GarbageCodewords == {[len |-> l, bits |-> <<g>>] : l \in {0, 3}, g \in GarbageWords}

\* code[idx] for idx within the table.
Entry(table, idx) == IF idx \in DOMAIN table THEN table[idx] ELSE ZeroCw

\* codeword_t *cw = &code[sym]: the entry read through cw. An index outside
\* the table reads outside the array.
Fetch(table, idx) ==
  IF idx \in 0 .. TableLen - 1 THEN {Entry(table, idx)} ELSE GarbageCodewords

\* cw->bits[k] for k within bits.
Bits(cw, k) == IF k < Len(cw.bits) THEN cw.bits[k + 1] ELSE 0

\* cw->bits[k]: an index outside bits reads outside the array.
ReadBits(cw, k) ==
  IF k \in 0 .. BitsLen - 1 THEN {Bits(cw, k)} ELSE GarbageWords

(* ------------------------------ encode --------------------------------- *)

\* NumWords without the bits pending in buf.
NumWordsNoPending(off, len) == len \div W

\* int num_words = (offset + cw->len) / W
NumWords(off, len) == (off + len) \div W

\* The word handed to putword in the loop.
FullWord(b, word, off) == ToWord(Or(b, Shl(word, off)))

\* Carry with the bits carried into the next word lost.
CarryLost(word, off) == 0

\* buf = cw->bits[w] >> (W - offset)
Carry(word, off) == ToWord(Shr(word, W - off))

\* for(w = 0; w < num_words; w++) { putword(..); buf = ..; } from index w on:
\* the words put and the final buf.
RECURSIVE CopyWords(_, _, _, _, _)
CopyWords(cw, b, off, w, nw) ==
  IF w >= nw THEN [words |-> <<>>, buf |-> b]
  ELSE LET rest == CopyWords(cw, Carry(Bits(cw, w), off), off, w + 1, nw)
       IN [words |-> <<FullWord(b, Bits(cw, w), off)>> \o rest.words,
           buf   |-> rest.buf]

\* TailMerge with = for |=: the bits pending in buf are lost.
TailOverwrite(b, tail, off) == ToWord(Shl(tail, off))

\* buf |= (cw->bits[num_words] << offset), tail being the word read.
TailMerge(b, tail, off) == ToWord(Or(b, Shl(tail, off)))

\* offset = (offset + cw->len) % W
NextOffset(off, len) == (off + len) % W

\* One iteration of the loop over the input for the codeword cw, tail being
\* the value read as cw->bits[num_words].
MergeStep(cw, tail, b, off) ==
  LET nw == NumWords(off, cw.len)
      r  == CopyWords(cw, b, off, 0, nw)
  IN [words  |-> r.words,
      buf    |-> TailMerge(r.buf, tail, off),
      offset |-> NextOffset(off, cw.len)]

\* FlushWords without the test of offset.
FlushAlways(b, off) == <<b>>

\* if(offset > 0) putword(buf): the words put after the loop.
FlushWords(b, off) == IF off > 0 THEN <<b>> ELSE <<>>

\* encode's loop over syms from position k on, as a function: the words put
\* and the final buf and offset. It is defined where no read falls outside
\* the table or a codeword's bits.
RECURSIVE EncodeFrom(_, _, _, _, _)
EncodeFrom(table, syms, k, b, off) ==
  IF k > Len(syms) THEN [words |-> <<>>, buf |-> b, offset |-> off]
  ELSE LET cw   == Entry(table, syms[k])
           r    == MergeStep(cw, Bits(cw, NumWords(off, cw.len)), b, off)
           rest == EncodeFrom(table, syms, k + 1, r.buf, r.offset)
       IN [words |-> r.words \o rest.words, buf |-> rest.buf, offset |-> rest.offset]

\* The words one call encode(table, syms, Len(syms)) puts.
EncodeCall(table, syms) ==
  LET r == EncodeFrom(table, syms, 1, 0, 0) IN r.words \o FlushWords(r.buf, r.offset)

\* The words one call of encode on syms may put from position k on, over
\* every value the reads outside the table and outside bits may yield.
RECURSIVE PossibleFrom(_, _, _, _, _)
PossibleFrom(table, syms, k, b, off) ==
  IF k > Len(syms) THEN {FlushWords(b, off)}
  ELSE UNION {
         UNION {
           LET r == MergeStep(cw, tail, b, off)
           IN {r.words \o rest : rest \in PossibleFrom(table, syms, k + 1, r.buf, r.offset)}
           : tail \in ReadBits(cw, NumWords(off, cw.len))}
         : cw \in Fetch(table, CharValue(syms[k]))}

\* The outputs of one call encode(table, syms, Len(syms)) on its own.
PossibleCall(table, syms) == PossibleFrom(table, syms, 1, 0, 0)

TypeOK ==
  /\ DOMAIN code \subseteq 0 .. TableLen - 1
  /\ \A s \in DOMAIN code :
       /\ code[s].len \in 0 .. MAX_CODEWORD_BITS
       /\ code[s].bits \in Seq(Word) /\ Len(code[s].bits) <= BitsLen
  /\ charSigned \in BOOLEAN
  /\ pc \in {"main", "encode", "exit"}
  /\ input \in Seq(0 .. 255)
  /\ i \in 0 .. Len(input)
  /\ buf \in Word
  /\ offset \in 0 .. W - 1
  /\ out \in Seq(Word)
  /\ stream \in Seq(Seq(0 .. 255))
  /\ mark \in 0 .. Len(out)
  /\ cwIndex \in Int
  /\ tailIndex \in Nat

(* ------------------------------ actions -------------------------------- *)

InitVars ==
  /\ charSigned \in BOOLEAN
  /\ pc = "main"
  /\ input = <<>>
  /\ i = 0
  /\ buf = 0
  /\ offset = 0
  /\ out = <<>>
  /\ stream = <<>>
  /\ mark = 0
  /\ cwIndex = 0
  /\ tailIndex = 0

\* main up to the read loop: code is main's table.
Init == code = MainTable /\ InitVars

\* A caller of encode with a table of its own.
InitEncode == code \in Tables /\ InitVars

\* Number of bytes of the chunks read so far.
RECURSIVE Total(_)
Total(chunks) == IF chunks = <<>> THEN 0 ELSE Len(Head(chunks)) + Total(Tail(chunks))

\* Sequences over S of length n.
SeqsOf(S, n) == [1 .. n -> S]

\* Number of bytes the run may still read.
Budget == MaxInput - Total(stream)

\* Enter with buf and offset kept from the call before, as static locals
\* would be.
EnterKeep(chunk) ==
  /\ pc' = "encode"
  /\ input' = chunk
  /\ i' = 0
  /\ stream' = Append(stream, chunk)
  /\ mark' = Len(out)
  /\ UNCHANGED <<code, charSigned, buf, offset, out, cwIndex, tailIndex>>

\* encode(code, chunk, Len(chunk)) is entered: buf = 0, offset = 0, i = 0.
Enter(chunk) ==
  /\ pc' = "encode"
  /\ input' = chunk
  /\ i' = 0
  /\ buf' = 0
  /\ offset' = 0
  /\ stream' = Append(stream, chunk)
  /\ mark' = Len(out)
  /\ UNCHANGED <<code, charSigned, out, cwIndex, tailIndex>>

\* main: read returns len > 0 bytes and encode is called on them.
Read ==
  /\ pc = "main"
  /\ Len(stream) < MaxCalls
  /\ \E n \in 1 .. Budget : \E chunk \in SeqsOf(Bytes, n) : Enter(chunk)

\* A caller calls encode on a chunk of any length, 0 included.
Call ==
  /\ pc = "main"
  /\ Len(stream) < MaxCalls
  /\ \E n \in 0 .. Budget : \E chunk \in SeqsOf(CallBytes, n) : Enter(chunk)

\* TableAfter with the entry just merged cleared, as if the codeword were
\* consumed in place.
TableConsumed(table, idx) ==
  IF idx \in DOMAIN table THEN [table EXCEPT ![idx] = ZeroCw] ELSE table

\* The table after one iteration that looked up code[idx]: the iteration
\* reads through cw and stores nothing through it.
TableAfter(table, idx) == table

\* One iteration of for(i = 0; i < len; i++).
Merge ==
  /\ pc = "encode"
  /\ i < Len(input)
  /\ LET sym == CharValue(input[i + 1]) IN
     \E cw \in Fetch(code, sym) :
       \E tail \in ReadBits(cw, NumWords(offset, cw.len)) :
         LET r == MergeStep(cw, tail, buf, offset) IN
           /\ out' = out \o r.words
           /\ buf' = r.buf
           /\ offset' = r.offset
           /\ cwIndex' = sym
           /\ tailIndex' = NumWords(offset, cw.len)
           /\ code' = TableAfter(code, sym)
  /\ i' = i + 1
  /\ UNCHANGED <<charSigned, pc, input, stream, mark>>

\* The loop is over: the last partial word is put and encode returns.
Flush ==
  /\ pc = "encode"
  /\ i = Len(input)
  /\ out' = out \o FlushWords(buf, offset)
  /\ pc' = "main"
  /\ UNCHANGED <<code, charSigned, input, i, buf, offset, stream, mark, cwIndex, tailIndex>>

\* main: read returns 0 or less and main returns.
Eof ==
  /\ pc = "main"
  /\ pc' = "exit"
  /\ UNCHANGED <<code, charSigned, input, i, buf, offset, out, stream, mark, cwIndex, tailIndex>>

Next == Read \/ Merge \/ Flush \/ Eof

Spec == Init /\ [][Next]_vars

NextEncode == Call \/ Merge \/ Flush

SpecEncode == InitEncode /\ [][NextEncode]_vars

(* ------------------------- notions of the claims ----------------------- *)

\* Bit k of the word x.
BitOf(x, k) == (x \div (2 ^ k)) % 2

\* The bits 0 .. len-1 of a codeword, LSB-first.
CwBits(cw) == [k \in 1 .. cw.len |-> BitOf(Bits(cw, (k - 1) \div W), (k - 1) % W)]

\* The concatenation of the codewords the table gives the symbols syms.
RECURSIVE CodeBits(_, _)
CodeBits(table, syms) ==
  IF syms = <<>> THEN <<>>
  ELSE CwBits(Entry(table, Head(syms))) \o CodeBits(table, Tail(syms))

\* The bits of a sequence of words, LSB-first, in the words' order.
WordBits(words) ==
  [k \in 1 .. Len(words) * W |-> BitOf(words[(k - 1) \div W + 1], (k - 1) % W)]

\* The sum of the lengths the table gives the symbols syms.
RECURSIVE SumLen(_, _)
SumLen(table, syms) ==
  IF syms = <<>> THEN 0 ELSE Entry(table, Head(syms)).len + SumLen(table, Tail(syms))

\* ceil(n / W)
CeilW(n) == (n + W - 1) \div W

\* The chunks of a stream, one after the other.
RECURSIVE Flatten(_)
Flatten(chunks) == IF chunks = <<>> THEN <<>> ELSE Head(chunks) \o Flatten(Tail(chunks))

\* The last call of encode has returned.
Returned == pc \in {"main", "exit"} /\ stream # <<>>

\* The words put by the last call of encode.
CallOut == SubSeq(out, mark + 1, Len(out))

\* The table gives the byte b a codeword (length > 0).
Assigned(b) == Entry(code, b).len > 0

AllAssigned(syms) == \A k \in 1 .. Len(syms) : Assigned(syms[k])

\* The symbols 'A' .. 'F' of main's table.
Alphabet == 65 .. 70

\* A decoder of the prefix code the table gives Alphabet: it reads n symbols
\* off the bits, each the one symbol whose codeword starts the bits left.
IsPrefix(p, bs) == Len(p) <= Len(bs) /\ SubSeq(bs, 1, Len(p)) = p

RECURSIVE Decode(_, _, _)
Decode(table, bs, n) ==
  IF n = 0 THEN <<>>
  ELSE LET fits == {s \in Alphabet : IsPrefix(CwBits(Entry(table, s)), bs)}
       IN IF Cardinality(fits) # 1 THEN <<-1>>
          ELSE LET s == CHOOSE x \in fits : TRUE
               IN <<s>> \o Decode(table, SubSeq(bs, Entry(table, s).len + 1, Len(bs)), n - 1)

\* A table with every content bit at a position >= the length cleared.
MaskedCw(cw) ==
  [len  |-> cw.len,
   bits |-> [w \in 1 .. Len(cw.bits) |->
               IF cw.len >= w * W THEN cw.bits[w]
               ELSE IF cw.len <= (w - 1) * W THEN 0
               ELSE cw.bits[w] % (2 ^ (cw.len - (w - 1) * W))]]

Masked(table) == [s \in DOMAIN table |-> MaskedCw(table[s])]

(* ------------------------------- claims -------------------------------- *)

\* C1: when a call of encode on symbols that all have a codeword of length
\* > 0 has returned, the bits of the words it put, LSB-first in the order
\* put, are the concatenation of the symbols' codewords followed only by
\* zero bits up to the next whole word.
C1_PackedIsConcatenation ==
  (Returned /\ AllAssigned(input)) =>
    LET bs == CodeBits(code, input)
        ob == WordBits(CallOut)
    IN /\ Len(ob) = CeilW(Len(bs)) * W
       /\ SubSeq(ob, 1, Len(bs)) = bs
       /\ \A k \in Len(bs) + 1 .. Len(ob) : ob[k] = 0

\* A call on three assigned symbols whose codewords cross a word boundary
\* has returned with two words.
C1_Witness ==
  Returned /\ AllAssigned(input) /\ Len(input) = 3 /\ Len(CallOut) = 2

\* C2: when the program is over, its output is what one call of encode on
\* the whole input puts, however the input was cut into chunks (stated for
\* the inputs all of whose bytes are below 0x80).
C2_ChunkingInvariance ==
  (pc = "exit" /\ \A k \in 1 .. Len(Flatten(stream)) : Flatten(stream)[k] < 128) =>
    out = EncodeCall(code, Flatten(stream))

\* C3: a symbol whose table entry has length 0 is rejected: the packing loop
\* never goes on past such a symbol.
C3_UnassignedRejected ==
  pc = "encode" => \A k \in 1 .. i : Assigned(input[k])

\* C4: the step that processes a symbol whose table entry has length 0 puts
\* no word and leaves buf and offset as they were.
C4_ZeroLengthNoEffect ==
  [][(pc = "encode" /\ i < Len(input) /\ i' = i + 1 /\ ~Assigned(input[i + 1]))
       => (out' = out /\ buf' = buf /\ offset' = offset)]_vars

\* C4 for the lookups that stay within the table: it holds there, so that C4
\* fails only through the index of C8.
C4_InTable ==
  [][(pc = "encode" /\ i < Len(input) /\ i' = i + 1 /\ ~Assigned(input[i + 1])
        /\ CharValue(input[i + 1]) \in 0 .. TableLen - 1)
       => (out' = out /\ buf' = buf /\ offset' = offset)]_vars

\* C5: when a call of encode has returned, it has put exactly
\* ceil(sum of the symbols' codeword lengths / W) words, and when the sum is
\* a multiple of W the accumulator ended at offset 0.
C5_BitCountConserved ==
  Returned =>
    /\ Len(CallOut) = CeilW(SumLen(code, input))
    /\ (SumLen(code, input) % W = 0 => offset = 0)

\* C5 for the lookups that stay within the table: it holds there, so that C5
\* fails only through the index of C8.
C5_InTable ==
  (Returned /\ \A k \in 1 .. Len(input) : CharValue(input[k]) \in 0 .. TableLen - 1) =>
    /\ Len(CallOut) = CeilW(SumLen(code, input))
    /\ (SumLen(code, input) % W = 0 => offset = 0)

\* C6: when a call of encode on symbols of 'A' .. 'F' has returned, a prefix
\* decoder of the same table that is told the number of symbols reads the
\* symbols back from the words put.
C6_RoundTrip ==
  (Returned /\ \A k \in 1 .. Len(input) : input[k] \in Alphabet) =>
    Decode(code, WordBits(CallOut), Len(input)) = input

\* A call on "FEA" (11 bits) has returned.
C6_Witness ==
  Returned /\ input = <<70, 69, 65>> /\ Len(CallOut) = 2

\* C7: the flush at the end of a call puts buf as one word when offset > 0
\* and nothing when offset = 0; the next call starts from buf = 0,
\* offset = 0; and a call on an empty chunk, whose flush follows the flush
\* of the call before with nothing merged in between, puts nothing.
C7_Flush ==
  [][/\ (pc = "encode" /\ pc' = "main") =>
          out' = out \o (IF offset > 0 THEN <<buf>> ELSE <<>>)
     /\ (pc = "main" /\ pc' = "encode") => (buf' = 0 /\ offset' = 0)
     /\ (pc = "encode" /\ pc' = "main" /\ input = <<>>) => out' = out]_vars

\* A call on an empty chunk has returned right after a call that flushed a
\* partial word.
C7_Witness ==
  /\ pc = "main"
  /\ Len(stream) = 2
  /\ stream[1] = <<65>>
  /\ stream[2] = <<>>
  /\ out = <<1>>
  /\ offset = 0

\* C8: the index used to access the table is within its 256 entries for
\* every input byte.
C8_IndexInTable == cwIndex \in 0 .. TableLen - 1

\* C9: the index of the tail read cw->bits[num_words], and so every index
\* of the loop below it, is within the content array.
C9_BitsIndexInRange == tailIndex \in 0 .. BitsLen - 1

\* C10: a call puts the same words and ends at the same offset as it would
\* with the table whose content bits at positions >= length are cleared
\* (stated for the codewords short enough for every read to stay within
\* their content).
C10_DontCareBits ==
  (Returned /\ \A k \in 1 .. Len(input) :
                 Entry(code, input[k]).len <= MAX_CODEWORD_BITS - W) =>
    /\ CallOut = EncodeCall(Masked(code), input)
    /\ offset = EncodeFrom(Masked(code), input, 1, 0, 0).offset

\* C11: the step that merges a codeword of length len at offset puts exactly
\* floor((offset + len) / W) words and leaves offset = (offset + len) mod W;
\* a len that is a multiple of W leaves offset as it was and puts len / W
\* words.
C11_MergeCount ==
  [][(pc = "encode" /\ i < Len(input) /\ i' = i + 1) =>
       LET len == Entry(code, input[i + 1]).len IN
         /\ Len(out') = Len(out) + (offset + len) \div W
         /\ SubSeq(out', 1, Len(out)) = out
         /\ offset' = (offset + len) % W
         /\ (len % W = 0 => (offset' = offset /\ Len(out') = Len(out) + len \div W))]_vars

\* 'G' (len = W) has been merged at offset 1, after 'A': one word was put
\* and the offset is still 1.
C11_Witness ==
  /\ pc = "encode"
  /\ input = <<65, 71>>
  /\ i = 2
  /\ offset = 1
  /\ Len(out) = 1

\* C12: after every merge offset is in [0, W) and buf holds bits only at the
\* positions below offset: every bit of buf at a position >= offset is zero.
C12_AccumulatorInvariant ==
  pc = "encode" => (offset \in 0 .. W - 1 /\ buf < 2 ^ offset)

\* C12 for the lookups that stay within the table: it holds there, so that
\* with main's table C12 fails only through the index of C8.
C12_InTable ==
  (pc = "encode" /\ \A k \in 1 .. i : CharValue(input[k]) \in 0 .. TableLen - 1) =>
    (offset \in 0 .. W - 1 /\ buf < 2 ^ offset)

\* The carry of the claim C13 for the content word x at offset off.
CarryOf(x, off) == IF off = 0 THEN 0 ELSE x \div (2 ^ (W - off))

\* C13: in the step that merges a codeword, the carry left by the content
\* word w is 0 at offset 0 and content[w] >> (W - offset) otherwise: every
\* word put after the first is that carry ORed with the next content word
\* shifted by offset, the buf left is the last carry ORed with the tail, and
\* at offset 0 every word put is the content word itself.
C13_Carry ==
  [][(pc = "encode" /\ i < Len(input) /\ i' = i + 1) =>
       LET cw == Entry(code, input[i + 1])
           nw == Len(out') - Len(out)
           put(w) == out'[Len(out) + w + 1]
       IN /\ \A w \in 1 .. nw - 1 :
               put(w) = ToWord(Or(CarryOf(Bits(cw, w - 1), offset), Shl(Bits(cw, w), offset)))
          /\ (nw >= 1 /\ nw < BitsLen) =>
               buf' = ToWord(Or(CarryOf(Bits(cw, nw - 1), offset), Shl(Bits(cw, nw), offset)))
          /\ offset = 0 => \A w \in 0 .. nw - 1 : put(w) = Bits(cw, w)]_vars

\* C13 for the carry alone: the first word put is buf ORed with the first
\* content word, and everything after it is as C13 says. It holds, so that
\* C13 fails only where buf is not zero at offset 0, after the read past
\* bits of C9.
C13_CarryOnly ==
  [][(pc = "encode" /\ i < Len(input) /\ i' = i + 1) =>
       LET cw == Entry(code, input[i + 1])
           nw == Len(out') - Len(out)
           put(w) == out'[Len(out) + w + 1]
       IN /\ nw >= 1 => put(0) = ToWord(Or(buf, Shl(Bits(cw, 0), offset)))
          /\ \A w \in 1 .. nw - 1 :
               put(w) = ToWord(Or(CarryOf(Bits(cw, w - 1), offset), Shl(Bits(cw, w), offset)))
          /\ (nw >= 1 /\ nw < BitsLen) =>
               buf' = ToWord(Or(CarryOf(Bits(cw, nw - 1), offset), Shl(Bits(cw, nw), offset)))
          /\ offset = 0 => \A w \in 1 .. nw - 1 : put(w) = Bits(cw, w)]_vars

\* C14: within one run of the program (one session over all the chunks of
\* its input) the accumulator is initialized once and flushed once, at the
\* end: when a later chunk is entered the accumulator is kept as the chunk
\* before left it, and no partial word has been put yet (the output holds
\* only the full words of the symbols merged so far).
C14_OneFlushPerSession ==
  [][(pc = "main" /\ pc' = "encode" /\ stream # <<>>) =>
       /\ buf' = buf /\ offset' = offset
       /\ Len(out) = SumLen(code, Flatten(stream)) \div W]_vars

\* C15: no step of the packing, over any symbols and chunks, changes an
\* entry (length or content) of the table.
C15_TableReadOnly == [][code' = code]_vars

\* The program is over after two chunks that put two words, and the table
\* is still the one main built.
C15_Witness ==
  /\ pc = "exit"
  /\ Len(stream) = 2
  /\ Len(out) = 2
  /\ code = MainTable

\* The concatenations of one output of each chunk packed on its own.
RECURSIVE PossibleRuns(_, _)
PossibleRuns(table, chunks) ==
  IF chunks = <<>> THEN {<<>>}
  ELSE {a \o b : a \in PossibleCall(table, Head(chunks)),
                 b \in PossibleRuns(table, Tail(chunks))}

\* C16: every call of encode starts from buf = 0, offset = 0 and ends with
\* its own flush: whenever the last call has returned, the output of the read
\* loop is the concatenation, in the chunks' order, of what each chunk gives
\* when it is packed and zero-padded on its own.
C16_CallsSelfContained ==
  /\ (pc = "encode" /\ i = 0) => (buf = 0 /\ offset = 0)
  /\ pc \in {"main", "exit"} => out \in PossibleRuns(code, stream)

\* The program is over after the chunks "A" and "B": the words are 0x01 and
\* 0x02, each chunk padded on its own.
C16_Witness ==
  /\ pc = "exit"
  /\ stream = <<<<65>>, <<66>>>>
  /\ out = <<1, 2>>

====
